---- MODULE Spec2Model ----
(***************************************************************************)
(* Multi-car paint shop optimization: the model builder                    *)
(* (get_paint_shop_cqm), the penalty reducer (get_paint_shop_bqm), the     *)
(* random problem generator (get_random_sequence) and the demo driver      *)
(* (main) of car_paint_shop.py / carpaintshop.py.                          *)
(*                                                                         *)
(* Quadratic models of the modelling library are polynomials over binary   *)
(* variables: a linear bias per variable, a quadratic bias per unordered   *)
(* pair of variables and a constant offset.  Products reduce x*x to x, as  *)
(* the library does for binary variables.  A model holds the variables     *)
(* that were added to it (its field variables), a subset of 0 .. n-1; the  *)
(* biases of the others are 0.  Python indices are 0-based; a Python list  *)
(* is a TLA+ sequence whose element i is at position i + 1.                *)
(***************************************************************************)
EXTENDS Integers, Sequences, FiniteSets, TLC

VARIABLES
    pc,                 \* position of the running scenario
    num_cars,           \* get_random_sequence / main argument
    num_car_ensembles,  \* get_random_sequence / main argument
    min_black,          \* get_random_sequence / main argument (None or int)
    max_black,          \* get_random_sequence / main argument (None or int)
    sequence,           \* the sequence of cars
    mapping,            \* car -> number of black cars (the dict k)
    mode,               \* objective formulation
    cqm,                \* the constrained quadratic model
    num_switches,       \* second value returned by get_paint_shop_cqm
    penalty,            \* get_paint_shop_bqm argument
    bqm,                \* the penalized model
    sample,             \* assignment under evaluation
    energies,           \* what the evaluation of sample returned
    filename,           \* main argument
    requested,          \* main argument time_limit, as passed by the caller
    time_limit,         \* main local time_limit
    min_time_limit,     \* main local min_time_limit
    solver_calls,       \* time_limit of each sampler.sample_cqm call
    warnings,           \* warnings emitted by warn
    returned,           \* what sampler.sample_cqm returned
    sampleset,          \* main local sampleset
    printed,            \* lines printed in the Solutions section
    reported,           \* candidates printed in the Solutions section
    plots               \* names handed to bars_plot

vars == <<pc, num_cars, num_car_ensembles, min_black, max_black, sequence,
          mapping, mode, cqm, num_switches, penalty, bqm, sample, energies,
          filename, requested, time_limit, min_time_limit, solver_calls,
          warnings, returned, sampleset, printed, reported, plots>>

genVars == <<num_cars, num_car_ensembles, min_black, max_black>>
evalVars == <<penalty, bqm, sample, energies>>
mainVars == <<filename, requested, time_limit, min_time_limit, solver_calls,
              warnings, returned, sampleset, printed, reported, plots>>

\* Python's None, and a value that is not None.  An argument that may be None
\* is None or Some(v); a variable that holds nothing yet is None.
None == <<>>
Some(v) == <<v>>
Value(o) == o[1]

----------------------------------------------------------------------------
(* Bounds of the model.                                                    *)

MaxCars == 4          \* longest sequence handed to the model builder
MaxDemand == 2        \* largest demand in a hand-written demand mapping
MaxNumCars == 4       \* largest num_cars handed to get_random_sequence
MaxEnsembles == 3     \* largest num_car_ensembles
MaxBlack == 2         \* largest caller-supplied min_black / max_black
MaxSamples == 4       \* most candidates the solver returns
SolverMinTimeLimit == 3   \* what sampler.min_time_limit(cqm) answers
MaxConstraints == 2   \* most constraints of a model handed to the reducer alone

Cars == {0, 1}                  \* labels of hand-written problems
Modes == {1, 2}                 \* mode = 1 and a mode other than 1
Penalties == {0, 2, 10}         \* penalty coefficients (2 is the default)
TimeLimits == {None, Some(0), Some(1), Some(5)}   \* time_limit arguments of main

----------------------------------------------------------------------------
(* Quadratic models over the binary variables 0 .. n-1.                    *)

Variables(n) == 0 .. (n - 1)
Interactions(n) == {p \in Variables(n) \X Variables(n) : p[1] < p[2]}

RECURSIVE SumOver(_, _)
SumOver(S, f) ==
    IF S = {} THEN 0
    ELSE LET e == CHOOSE e \in S : TRUE IN f[e] + SumOver(S \ {e}, f)

\* An empty model, as BinaryQuadraticModel('BINARY') or an empty quicksum.
EmptyModel(n) ==
    [variables |-> {},
     linear |-> [v \in Variables(n) |-> 0],
     quadratic |-> [p \in Interactions(n) |-> 0],
     offset |-> 0]

\* dimod.Binary(i): the model of the single variable i.
Binary(n, i) ==
    [variables |-> {i},
     linear |-> [v \in Variables(n) |-> IF v = i THEN 1 ELSE 0],
     quadratic |-> [p \in Interactions(n) |-> 0],
     offset |-> 0]

IsLinear(a) == \A p \in DOMAIN a.quadratic : a.quadratic[p] = 0

Add(a, b) ==
    [variables |-> a.variables \cup b.variables,
     linear |-> [v \in DOMAIN a.linear |-> a.linear[v] + b.linear[v]],
     quadratic |-> [p \in DOMAIN a.quadratic |-> a.quadratic[p] + b.quadratic[p]],
     offset |-> a.offset + b.offset]

Scale(c, a) ==
    [variables |-> a.variables,
     linear |-> [v \in DOMAIN a.linear |-> c * a.linear[v]],
     quadratic |-> [p \in DOMAIN a.quadratic |-> c * a.quadratic[p]],
     offset |-> c * a.offset]

Neg(a) == Scale(-1, a)

Sub(a, b) == Add(a, Neg(b))

AddConst(a, c) == [a EXCEPT !.offset = a.offset + c]

\* Product of two models without interactions; x * x is x for a binary x.
Mul(a, b) ==
    [variables |-> a.variables \cup b.variables,
     linear |-> [v \in DOMAIN a.linear |->
                    a.offset * b.linear[v] + b.offset * a.linear[v]
                    + a.linear[v] * b.linear[v]],
     quadratic |-> [p \in DOMAIN a.quadratic |->
                    a.linear[p[1]] * b.linear[p[2]]
                    + a.linear[p[2]] * b.linear[p[1]]],
     offset |-> a.offset * b.offset]

Square(a) == Mul(a, a)

\* dimod.quicksum over the terms term[1], ..., term[m].  The sum of no terms
\* (a sequence of one car, a category with no position) is taken to be the
\* empty model, a quadratic model like every other sum.
RECURSIVE QuickSumUpTo(_, _, _)
QuickSumUpTo(n, term, m) ==
    IF m = 0 THEN EmptyModel(n)
    ELSE Add(QuickSumUpTo(n, term, m - 1), term[m])

QuickSum(n, term) == QuickSumUpTo(n, term, Len(term))

\* model.energy(sample)
Energy(a, s) ==
    a.offset
    + SumOver(DOMAIN a.linear, [v \in DOMAIN a.linear |-> a.linear[v] * s[v]])
    + SumOver(DOMAIN a.quadratic,
              [p \in DOMAIN a.quadratic |-> a.quadratic[p] * s[p[1]] * s[p[2]]])

Samples(n) == [Variables(n) -> {0, 1}]

----------------------------------------------------------------------------
(* get_paint_shop_cqm(sequence, k, mode)                                   *)

\* Mutant: the difference of neighbours is not squared.
SwitchTermNotSquared(n, i) == Sub(Binary(n, i + 1), Binary(n, i))

\* (x[i + 1] - x[i]) ** 2
SwitchTerm(n, i) == Square(Sub(Binary(n, i + 1), Binary(n, i)))

\* Mutant: the sequence is closed into a cycle, the last car next to the first.
NumSwitchesCircular(n) ==
    QuickSum(n, [j \in 1 .. n |-> IF j = n
                                  THEN Square(Sub(Binary(n, 0), Binary(n, n - 1)))
                                  ELSE SwitchTerm(n, j - 1)])

\* num_switches: the quicksum over i in range(len(x) - 1)
NumSwitches(n) == QuickSum(n, [j \in 1 .. (n - 1) |-> SwitchTerm(n, j - 1)])

\* Mutant: the second factor is 2 * x[i + 1], its - 1 is lost.
IsingTermUnshifted(n, i) ==
    Mul(Neg(AddConst(Scale(2, Binary(n, i)), -1)),
        Scale(2, Binary(n, i + 1)))

\* Mutant: the leading minus sign is lost.
IsingTermUnsigned(n, i) ==
    Mul(AddConst(Scale(2, Binary(n, i)), -1),
        AddConst(Scale(2, Binary(n, i + 1)), -1))

\* -(2 * x[i] - 1) * (2 * x[i + 1] - 1)
IsingTerm(n, i) ==
    Mul(Neg(AddConst(Scale(2, Binary(n, i)), -1)),
        AddConst(Scale(2, Binary(n, i + 1)), -1))

IsingObjective(n) == QuickSum(n, [j \in 1 .. (n - 1) |-> IsingTerm(n, j - 1)])

\* the argument of cqm.set_objective
Objective(n, md) == IF md = 1 THEN NumSwitches(n) ELSE IsingObjective(n)

\* index = [i for i, c in enumerate(sequence) if c == car]
Index(seq, car) ==
    SelectSeq([j \in 1 .. Len(seq) |-> j - 1], LAMBDA i : seq[i + 1] = car)

\* Mutant: the constraint is added as an upper bound, constraint <= number.
ConstraintAtMost(seq, car, number) ==
    LET index == Index(seq, car)
        constraint == QuickSum(Len(seq),
                               [j \in 1 .. Len(index) |-> Binary(Len(seq), index[j])])
    IN  [lhs |-> constraint, sense |-> "<=", rhs |-> number]

\* constraint == number, for one item of k
Constraint(seq, car, number) ==
    LET index == Index(seq, car)
        constraint == QuickSum(Len(seq),
                               [j \in 1 .. Len(index) |-> Binary(Len(seq), index[j])])
    IN  [lhs |-> constraint, sense |-> "==", rhs |-> number]

RECURSIVE InOrder(_)
InOrder(S) ==
    IF S = {} THEN <<>>
    ELSE LET m == CHOOSE m \in S : \A o \in S : m <= o
         IN  <<m>> \o InOrder(S \ {m})

\* k.items(): the keys of the dict, each once
Items(k) == InOrder(DOMAIN k)

\* Mutant: a key of k that labels no position of the sequence is skipped.
ConstraintsOfPresent(seq, k) ==
    LET items == SelectSeq(Items(k), LAMBDA car : Index(seq, car) # <<>>)
    IN  [j \in 1 .. Len(items) |-> Constraint(seq, items[j], k[items[j]])]

\* the constraints added by the loop over k.items()
Constraints(seq, k) ==
    LET items == Items(k)
    IN  [j \in 1 .. Len(items) |-> Constraint(seq, items[j], k[items[j]])]

\* cqm.variables: the variables of the objective and of the constraints
CqmVariables(objective, constraints) ==
    objective.variables
    \cup UNION {constraints[j].lhs.variables : j \in DOMAIN constraints}

\* the model after cqm.set_objective and the calls of cqm.add_constraint
Cqm(objective, constraints) ==
    [objective |-> objective,
     constraints |-> constraints,
     variables |-> CqmVariables(objective, constraints)]

\* Mutant: the second value returned is the active objective.
GetPaintShopCqmReturningObjective(seq, k, md) ==
    [cqm |-> Cqm(Objective(Len(seq), md), Constraints(seq, k)),
     num_switches |-> Objective(Len(seq), md)]

GetPaintShopCqm(seq, k, md) ==
    [cqm |-> Cqm(Objective(Len(seq), md), Constraints(seq, k)),
     num_switches |-> NumSwitches(Len(seq))]

\* cqm.check_feasible(sample)
CheckFeasible(model, s) ==
    \A j \in DOMAIN model.constraints :
        LET c == model.constraints[j]
        IN  /\ c.sense = "==" => Energy(c.lhs, s) = c.rhs
            /\ c.sense = "<=" => Energy(c.lhs, s) <= c.rhs
            /\ c.sense = ">=" => Energy(c.lhs, s) >= c.rhs

----------------------------------------------------------------------------
(* get_paint_shop_bqm(cqm, penalty)                                        *)

\* Mutant: the offset of the objective is not carried over.
BqmWithoutOffset(model) ==
    [variables |-> model.objective.variables,
     linear |-> model.objective.linear,
     quadratic |-> model.objective.quadratic,
     offset |-> 0]

\* offset, add_linear_from and add_quadratic_from of the objective
BqmFromObjective(model) ==
    [variables |-> model.objective.variables,
     linear |-> model.objective.linear,
     quadratic |-> model.objective.quadratic,
     offset |-> model.objective.offset]

\* penalty * (c.lhs - c.rhs) ** 2
PenaltyTerm(c, p) == Scale(p, Square(AddConst(c.lhs, -c.rhs)))

RECURSIVE BqmUpdateUpTo(_, _, _)
BqmUpdateUpTo(model, p, m) ==
    IF m = 0 THEN BqmFromObjective(model)
    ELSE Add(BqmUpdateUpTo(model, p, m - 1), PenaltyTerm(model.constraints[m], p))

GetPaintShopBqm(model, p) == BqmUpdateUpTo(model, p, Len(model.constraints))

----------------------------------------------------------------------------
(* get_random_sequence(num_cars, seed, num_car_ensembles, min_black,       *)
(* max_black).  The seeded generator is a choice among the values          *)
(* np.random.randint can draw.                                             *)

\* Python's truth value of an argument that is None or an int
Truthy(o) == o # None /\ Value(o) # 0

\* Mutant: the upper end of np.random.randint(0, num_car_ensembles) is drawn.
RandomSequencesInclusive(n, ensembles) == [1 .. n -> 0 .. ensembles]

\* np.random.randint(0, num_car_ensembles, size=num_cars)
RandomSequences(n, ensembles) == [1 .. n -> 0 .. (ensembles - 1)]

Range(seq) == {seq[j] : j \in DOMAIN seq}

\* dict(zip(*np.unique(sequence, return_counts=True)))
Counts(seq) ==
    [ensemble \in Range(seq) |-> Cardinality({j \in DOMAIN seq : seq[j] = ensemble})]

\* a = int(cars * 1 / 3) if not min_black else min_black
LowerBlack(cars, mn) == IF ~Truthy(mn) THEN (cars * 1) \div 3 ELSE Value(mn)

\* b = int(cars * 2 / 3) if not max_black else max_black; if b <= a: b = a + 1
UpperBlack(cars, mn, mx) ==
    LET a == LowerBlack(cars, mn)
        b == IF ~Truthy(mx) THEN (cars * 2) \div 3 ELSE Value(mx)
    IN  IF b <= a THEN a + 1 ELSE b

\* Mutant: the upper end b of np.random.randint(a, b) is drawn too.
BlackChoicesInclusive(cars, mn, mx) ==
    LowerBlack(cars, mn) .. UpperBlack(cars, mn, mx)

\* the values np.random.randint(a, b) draws from
BlackChoices(cars, mn, mx) ==
    LowerBlack(cars, mn) .. (UpperBlack(cars, mn, mx) - 1)

\* the mappings the loop over counts.items() can fill
RandomMappings(seq, mn, mx) ==
    LET counts == Counts(seq)
        all == UNION {BlackChoices(counts[e], mn, mx) : e \in DOMAIN counts}
    IN  {m \in [DOMAIN counts -> all] :
            \A e \in DOMAIN counts : m[e] \in BlackChoices(counts[e], mn, mx)}

----------------------------------------------------------------------------
(* Hand-written problems, as in the tests and the data files.              *)

SequencesOver(labels, lo, hi) ==
    UNION {[1 .. n -> labels] : n \in lo .. hi}

DemandMappings == UNION {[S -> 0 .. MaxDemand] : S \in SUBSET Cars}

Unset ==
    /\ num_cars = None /\ num_car_ensembles = None
    /\ min_black = None /\ max_black = None

NoMain ==
    /\ filename = None /\ requested = None /\ time_limit = None
    /\ min_time_limit = None /\ solver_calls = <<>> /\ warnings = <<>>
    /\ returned = None /\ sampleset = None /\ printed = <<>>
    /\ reported = <<>> /\ plots = <<>>

Init ==
    /\ pc = "start"
    /\ Unset
    /\ NoMain
    /\ sequence \in SequencesOver(Cars, 1, MaxCars)
    /\ mapping \in DemandMappings
    /\ mode \in Modes
    /\ cqm = None /\ num_switches = None
    /\ penalty = None /\ bqm = None
    /\ sample = None /\ energies = None

\* cqm, num_switches = get_paint_shop_cqm(sequence, counts, mode)
BuildCqm ==
    /\ pc = "start"
    /\ LET r == GetPaintShopCqm(sequence, mapping, mode)
       IN  /\ cqm' = r.cqm
           /\ num_switches' = r.num_switches
    /\ pc' = "built"
    /\ UNCHANGED <<genVars, sequence, mapping, mode, evalVars, mainVars>>

\* bqm = get_paint_shop_bqm(cqm, penalty=p)
ReduceToBqm(p) ==
    /\ pc = "built"
    /\ penalty' = p
    /\ bqm' = GetPaintShopBqm(cqm, p)
    /\ pc' = "reduced"
    /\ UNCHANGED <<genVars, sequence, mapping, mode, cqm, num_switches,
                   sample, energies, mainVars>>

\* cqm.check_feasible(sample), cqm.objective.energy(sample),
\* objective.energy(sample) and bqm.energy(sample) of the tests
Evaluate(s) ==
    /\ pc \in {"built", "reduced"}
    /\ sample' = s
    /\ energies' = [feasible |-> CheckFeasible(cqm, s),
                    objective |-> Energy(cqm.objective, s),
                    num_switches |-> Energy(num_switches, s),
                    bqm |-> IF pc = "reduced" THEN Some(Energy(bqm, s)) ELSE None]
    /\ pc' = "evaluated"
    /\ UNCHANGED <<genVars, sequence, mapping, mode, cqm, num_switches,
                   penalty, bqm, mainVars>>

Next ==
    \/ BuildCqm
    \/ \E p \in Penalties : ReduceToBqm(p)
    \/ \E s \in Samples(Len(sequence)) : Evaluate(s)

Spec == Init /\ [][Next]_vars

----------------------------------------------------------------------------
(* Properties of the model builder and the penalty reducer (Spec).         *)

\* The number of adjacent positions whose assigned values differ.
SwitchCount(s) ==
    Cardinality({i \in DOMAIN s : (i + 1) \in DOMAIN s /\ s[i] # s[i + 1]})

\* The number of positions labelled car that are assigned 1.
BlackCount(seq, s, car) ==
    Cardinality({i \in DOMAIN s : seq[i + 1] = car /\ s[i] = 1})

RECURSIVE SquaredViolationsUpTo(_, _, _)
SquaredViolationsUpTo(model, s, m) ==
    IF m = 0 THEN 0
    ELSE LET c == model.constraints[m]
             v == Energy(c.lhs, s) - c.rhs
         IN  SquaredViolationsUpTo(model, s, m - 1) + v * v

\* The sum over all constraints of (lhs - rhs)^2 at the assignment s.
SquaredViolations(model, s) ==
    SquaredViolationsUpTo(model, s, Len(model.constraints))

\* C1: with mode = 1 the objective of the built model evaluates, at every 0/1
\* assignment, to the number of indices i at which the assignment at i differs
\* from the assignment at i + 1.
C1_Mode1ObjectiveCountsSwitches ==
    (pc = "evaluated" /\ mode = 1) => energies.objective = SwitchCount(sample)

C1_Witness ==
    /\ pc = "evaluated" /\ mode = 1
    /\ Len(sequence) >= 3
    /\ SwitchCount(sample) = 2
    /\ energies.objective = 2

\* C2: with a mode other than 1 the objective of the built model evaluates to
\* 2 * switch_count - (N - 1) at every 0/1 assignment.
C2_OtherModeObjective ==
    (pc = "evaluated" /\ mode # 1) =>
        energies.objective = 2 * SwitchCount(sample) - (Len(sequence) - 1)

C2_Witness ==
    /\ pc = "evaluated" /\ mode # 1
    /\ Len(sequence) >= 3
    /\ SwitchCount(sample) = 1
    /\ energies.objective = 2 - (Len(sequence) - 1)

\* C3: the built model has exactly one equality constraint per key of the demand
\* mapping, in either mode, and an assignment is feasible exactly when, for every
\* key, the number of positions labelled with it that are assigned 1 equals its
\* demand.
C3_OneEqualityPerCategory ==
    /\ pc # "start" =>
        /\ Len(cqm.constraints) = Cardinality(DOMAIN mapping)
        /\ \A j \in DOMAIN cqm.constraints : cqm.constraints[j].sense = "=="
    /\ pc = "evaluated" =>
        (energies.feasible <=>
            \A car \in DOMAIN mapping :
                BlackCount(sequence, sample, car) = mapping[car])

C3_Witness ==
    /\ pc = "evaluated"
    /\ Cardinality(DOMAIN mapping) = 2
    /\ Len(cqm.constraints) = 2
    /\ energies.feasible
    /\ \E car \in DOMAIN mapping : mapping[car] >= 1

\* C4: the energy of the penalized model is the objective energy, offset
\* included, plus the penalty coefficient times the sum over all constraints of
\* (lhs - rhs)^2; on a feasible assignment it is the objective energy.
C4_PenalizedEnergy ==
    (pc = "evaluated" /\ energies.bqm # None) =>
        /\ Value(energies.bqm) =
               energies.objective + penalty * SquaredViolations(cqm, sample)
        /\ energies.feasible => Value(energies.bqm) = energies.objective

C4_Witness ==
    /\ pc = "evaluated" /\ energies.bqm # None
    /\ mode # 1
    /\ penalty > 0
    /\ ~energies.feasible
    /\ SquaredViolations(cqm, sample) >= 4
    /\ energies.objective < 0
    /\ Value(energies.bqm) > energies.objective

\* C5: whatever the mode, the second value returned by get_paint_shop_cqm
\* evaluates to the number of adjacent positions whose values differ.
C5_SecondValueIsSwitchCount ==
    pc = "evaluated" => energies.num_switches = SwitchCount(sample)

C5_Witness ==
    /\ pc = "evaluated" /\ mode # 1
    /\ energies.num_switches = SwitchCount(sample)
    /\ energies.num_switches # energies.objective
    /\ SwitchCount(sample) >= 2

\* C14, as claimed: for a sequence of one car get_paint_shop_cqm does not fail,
\* in either mode, and returns a model with one decision variable, an objective
\* with no pairwise terms that is 0 on both assignments, a switch-count
\* expression that is 0, and the constraints of the demand mapping.
C14_OneCarOneVariable ==
    /\ (pc = "start" /\ Len(sequence) = 1) => ENABLED BuildCqm
    /\ (pc = "built" /\ Len(sequence) = 1) =>
        /\ Cardinality(cqm.variables) = 1
        /\ \A p \in DOMAIN cqm.objective.quadratic : cqm.objective.quadratic[p] = 0
        /\ \A s \in Samples(1) :
              Energy(cqm.objective, s) = 0 /\ Energy(num_switches, s) = 0
        /\ Len(cqm.constraints) = Cardinality(DOMAIN mapping)
        /\ \A car \in DOMAIN mapping :
              \E j \in DOMAIN cqm.constraints :
                  /\ cqm.constraints[j].sense = "=="
                  /\ cqm.constraints[j].rhs = mapping[car]
                  /\ cqm.constraints[j].lhs.variables =
                         IF sequence[1] = car THEN {0} ELSE {}

\* C14, amended: for a sequence of one car get_paint_shop_cqm does not fail, in
\* either mode, and returns a model whose objective has no variable and no
\* pairwise term and is 0 on both assignments, a switch-count expression that
\* is 0, and the constraints of the demand mapping; the model has the one
\* decision variable exactly when the car's category is a key of the demand
\* mapping, and no variable otherwise.
C14_OneCarVariableIfConstrained ==
    /\ (pc = "start" /\ Len(sequence) = 1) => ENABLED BuildCqm
    /\ (pc = "built" /\ Len(sequence) = 1) =>
        /\ cqm.variables = IF sequence[1] \in DOMAIN mapping THEN {0} ELSE {}
        /\ cqm.objective.variables = {}
        /\ \A p \in DOMAIN cqm.objective.quadratic : cqm.objective.quadratic[p] = 0
        /\ \A s \in Samples(1) :
              Energy(cqm.objective, s) = 0 /\ Energy(num_switches, s) = 0
        /\ Len(cqm.constraints) = Cardinality(DOMAIN mapping)
        /\ \A car \in DOMAIN mapping :
              \E j \in DOMAIN cqm.constraints :
                  /\ cqm.constraints[j].sense = "=="
                  /\ cqm.constraints[j].rhs = mapping[car]
                  /\ cqm.constraints[j].lhs.variables =
                         IF sequence[1] = car THEN {0} ELSE {}

C14_Witness ==
    /\ pc = "built" /\ Len(sequence) = 1 /\ mode # 1
    /\ sequence[1] \in DOMAIN mapping
    /\ cqm.variables = {0}
    /\ Len(cqm.constraints) = 2
    /\ \A s \in Samples(1) : Energy(cqm.objective, s) = 0

\* The objective of the model built with mode = 1 for the same arguments.
Mode1Objective == GetPaintShopCqm(sequence, mapping, 1).cqm.objective

\* C15, as claimed: the objective built with a mode other than 1 differs from
\* the objective built with mode 1 by a constant offset: one constant C with
\* energy(other mode) = energy(mode 1) + C at every 0/1 assignment.
C15_ConstantOffset ==
    (pc = "built" /\ mode # 1) =>
        \E C \in -(2 * Len(sequence)) .. (2 * Len(sequence)) :
            \A s \in Samples(Len(sequence)) :
                Energy(cqm.objective, s) = Energy(Mode1Objective, s) + C

\* C15, amended: the objective built with a mode other than 1 is twice the
\* objective built with mode 1 plus a constant that depends only on the
\* sequence length: energy(other mode) = 2 * energy(mode 1) - (N - 1) at every
\* 0/1 assignment.
C15_TwiceMode1PlusConstant ==
    (pc = "built" /\ mode # 1) =>
        \A s \in Samples(Len(sequence)) :
            Energy(cqm.objective, s) =
                2 * Energy(Mode1Objective, s) - (Len(sequence) - 1)

C15_Witness ==
    /\ pc = "built" /\ mode # 1
    /\ Len(sequence) = 3
    /\ \E s \in Samples(3) :
          Energy(Mode1Objective, s) = 2 /\ Energy(cqm.objective, s) = 2
    /\ \E s \in Samples(3) :
          Energy(Mode1Objective, s) = 0 /\ Energy(cqm.objective, s) = -2

\* A demand above the number of positions of its category (a category that
\* labels no position and has a non-zero demand included).
ExcessDemand(seq, k) ==
    {car \in DOMAIN k : k[car] > Cardinality({j \in DOMAIN seq : seq[j] = car})}

\* C13: get_paint_shop_cqm does not validate the demand mapping: for a demand
\* above its category's number of occurrences, or a non-zero demand of a
\* category absent from the sequence, it returns a model, with the constraint
\* of every key, for which no 0/1 assignment is feasible.
C13_ExcessDemandIsInfeasible ==
    (pc = "built" /\ ExcessDemand(sequence, mapping) # {}) =>
        /\ Len(cqm.constraints) = Cardinality(DOMAIN mapping)
        /\ \A s \in Samples(Len(sequence)) : ~CheckFeasible(cqm, s)

C13_Witness ==
    /\ pc = "built"
    /\ Len(sequence) >= 2
    /\ \E car \in ExcessDemand(sequence, mapping) :
          \A j \in DOMAIN sequence : sequence[j] # car
    /\ \E car \in DOMAIN mapping \ ExcessDemand(sequence, mapping) :
          \E j \in DOMAIN sequence : sequence[j] = car
    /\ \A s \in Samples(Len(sequence)) : ~CheckFeasible(cqm, s)

----------------------------------------------------------------------------
(* The random problem generator on its own (SpecGen).                      *)

BlackArguments == {None} \cup {Some(v) : v \in 0 .. MaxBlack}

NoModel ==
    /\ cqm = None /\ num_switches = None
    /\ penalty = None /\ bqm = None
    /\ sample = None /\ energies = None

InitGen ==
    /\ pc = "call"
    /\ num_cars \in 0 .. MaxNumCars
    /\ num_car_ensembles \in 1 .. MaxEnsembles
    /\ min_black \in BlackArguments
    /\ max_black \in BlackArguments
    /\ sequence = <<>> /\ mapping = <<>>
    /\ mode = None
    /\ NoModel
    /\ NoMain

\* sequence, mapping = get_random_sequence(num_cars, seed, num_car_ensembles,
\*                                         min_black, max_black)
GetRandomSequence ==
    /\ pc = "call"
    /\ \E seq \in RandomSequences(num_cars, num_car_ensembles) :
         \E m \in RandomMappings(seq, min_black, max_black) :
            /\ sequence' = seq
            /\ mapping' = m
    /\ pc' = "returned"
    /\ UNCHANGED <<genVars, mode, cqm, num_switches, evalVars, mainVars>>

NextGen == GetRandomSequence

SpecGen == InitGen /\ [][NextGen]_vars

DefaultBounds == min_black = None /\ max_black = None

Occurrences(seq, ensemble) == Cardinality({j \in DOMAIN seq : seq[j] = ensemble})

Max(a, b) == IF a >= b THEN a ELSE b
Min(a, b) == IF a <= b THEN a ELSE b

C10_SequenceAndKeys ==
    pc = "returned" =>
        /\ Len(sequence) = num_cars
        /\ \A j \in DOMAIN sequence :
              sequence[j] >= 0 /\ sequence[j] <= num_car_ensembles - 1
        /\ DOMAIN mapping = {sequence[j] : j \in 1 .. Len(sequence)}

C10_Witness ==
    /\ pc = "returned"
    /\ num_cars = 4 /\ num_car_ensembles = 3
    /\ Len(sequence) = 4
    /\ Cardinality(DOMAIN mapping) = 2
    /\ \E j \in DOMAIN sequence : sequence[j] = 2

\* C12: whatever the arguments and the caller-supplied bounds, every generated
\* demand is a non-negative integer not greater than the number of occurrences
\* of its category in the generated sequence.
C12_DemandWithinOccurrences ==
    pc = "returned" =>
        \A e \in DOMAIN mapping :
            /\ mapping[e] >= 0
            /\ mapping[e] <= Occurrences(sequence, e)

----------------------------------------------------------------------------
(* main(num_cars, seed, mode, num_car_ensembles, min_black, max_black,     *)
(* save_sequence, sequence_name, filename, time_limit) (SpecMain).         *)
(* The solver is the external collaborator: it answers any collection of   *)
(* at most MaxSamples assignments, each with its objective energy.         *)

MainNumCars == {2}            \* num_cars arguments of main
MainNumCarEnsembles == {2}    \* num_car_ensembles arguments of main
Filenames == {None, Some("exp.yml")}

\* load_from_yml(filename): data['sequence'], data['counts'] of the file
LoadFromYml(name) ==
    [sequence |-> <<0, 0, 1>>, counts |-> (0 :> 1)]

\* the rows of a sample set: an assignment with its energy
Row(model, s) == [sample |-> s, energy |-> Energy(model.objective, s)]

\* what sampler.sample_cqm(cqm, time_limit=time_limit) can answer
SolverAnswers(model, n) ==
    UNION {[1 .. m -> {Row(model, s) : s \in Samples(n)}] : m \in 0 .. MaxSamples}

\* SampleSet.aggregate(): duplicate assignments are merged, in the order of
\* their first occurrence
RECURSIVE Aggregate(_)
Aggregate(rows) ==
    IF rows = <<>> THEN <<>>
    ELSE LET n == Len(rows)
             front == Aggregate(SubSeq(rows, 1, n - 1))
         IN  IF \E j \in 1 .. (n - 1) : rows[j].sample = rows[n].sample
             THEN front
             ELSE Append(front, rows[n])

\* Mutant: the result is truncated to three rows before it is filtered.
FilterTruncated(rows, model) ==
    LET cut == SubSeq(rows, 1, IF Len(rows) < 3 THEN Len(rows) ELSE 3)
    IN  SelectSeq(cut, LAMBDA r : CheckFeasible(model, r.sample))

\* Mutant: no row is filtered out.
FilterNothing(rows, model) == rows

\* sampleset.filter(lambda x: cqm.check_feasible(x.sample))
Filter(rows, model) ==
    SelectSeq(rows, LAMBDA r : CheckFeasible(model, r.sample))

\* the rows in the stable order of their energies
RECURSIVE SortedByEnergy(_)
SortedByEnergy(rows) ==
    IF rows = <<>> THEN <<>>
    ELSE LET n == Len(rows)
             front == SortedByEnergy(SubSeq(rows, 1, n - 1))
             before == SelectSeq(front, LAMBDA r : r.energy <= rows[n].energy)
             after == SelectSeq(front, LAMBDA r : r.energy > rows[n].energy)
         IN  before \o <<rows[n]>> \o after

\* SampleSet.truncate(n): the first n rows, sorted by energy
Truncate(rows, n) ==
    LET sorted == SortedByEnergy(rows)
    IN  SubSeq(sorted, 1, IF Len(sorted) < n THEN Len(sorted) ELSE n)

\* what the loop over enumerate(sampleset.samples()) prints for one candidate
ReportLine(model, switches, index, s) ==
    [index |-> index + 1,
     sample |-> s,
     objective |-> Energy(model.objective, s),
     num_switches |-> Energy(switches, s)]

\* image_name + f'_{index}_{mode}.png'
PlotName(name, index, md) ==
    [image_name |-> IF name = None THEN <<"color_sequence_image">>
                    ELSE <<Value(name), "_color_sequence_image">>,
     index |-> index,
     mode |-> md]

InitMain ==
    /\ pc = "main"
    /\ num_cars \in MainNumCars
    /\ num_car_ensembles \in MainNumCarEnsembles
    /\ min_black = None /\ max_black = None
    /\ mode \in Modes
    /\ filename \in Filenames
    /\ requested \in TimeLimits
    /\ sequence = <<>> /\ mapping = <<>>
    /\ NoModel
    /\ time_limit = None /\ min_time_limit = None
    /\ solver_calls = <<>> /\ warnings = <<>>
    /\ returned = None /\ sampleset = None
    /\ printed = <<>> /\ reported = <<>> /\ plots = <<>>

\* the problem: get_random_sequence, or load_from_yml when a file is named
MainProblem ==
    /\ pc = "main"
    /\ IF filename = None
       THEN \E seq \in RandomSequences(num_cars, num_car_ensembles) :
              \E m \in RandomMappings(seq, min_black, max_black) :
                 /\ sequence' = seq
                 /\ mapping' = m
       ELSE /\ sequence' = LoadFromYml(Value(filename)).sequence
            /\ mapping' = LoadFromYml(Value(filename)).counts
    /\ time_limit' = requested
    /\ pc' = "problem"
    /\ UNCHANGED <<genVars, mode, cqm, num_switches, evalVars, filename,
                   requested, min_time_limit, solver_calls, warnings,
                   returned, sampleset, printed, reported, plots>>

\* the model, the minimum time limit of the solver and the time limit to use
MainModel ==
    /\ pc = "problem"
    /\ LET r == GetPaintShopCqm(sequence, mapping, mode)
       IN  /\ cqm' = r.cqm
           /\ num_switches' = r.num_switches
    /\ min_time_limit' = SolverMinTimeLimit
    /\ IF Truthy(time_limit) /\ Value(time_limit) < min_time_limit'
       THEN /\ time_limit' = Some(min_time_limit')
            /\ warnings' = Append(warnings,
                                  "Time limit is less than the minimum allowed")
       ELSE UNCHANGED <<time_limit, warnings>>
    /\ pc' = "model"
    /\ UNCHANGED <<genVars, sequence, mapping, mode, evalVars, filename,
                   requested, solver_calls, returned, sampleset, printed,
                   reported, plots>>

\* sampler.sample_cqm(cqm, time_limit=time_limit).aggregate(), then the filter
MainSample ==
    /\ pc = "model"
    /\ solver_calls' = Append(solver_calls, time_limit)
    /\ \E rows \in SolverAnswers(cqm, Len(sequence)) :
          /\ returned' = rows
          /\ sampleset' = Filter(Aggregate(rows), cqm)
    /\ pc' = "sampled"
    /\ UNCHANGED <<genVars, sequence, mapping, mode, cqm, num_switches,
                   evalVars, filename, requested, time_limit, min_time_limit,
                   warnings, printed, reported, plots>>

\* the Solutions section
MainSolutions ==
    /\ pc = "sampled"
    /\ IF Len(sampleset) = 0
       THEN /\ printed' = <<"Solutions", "No feasible solution found.">>
            /\ UNCHANGED <<sampleset, reported, plots>>
       ELSE /\ printed' = <<"Solutions">>
            /\ sampleset' = Truncate(sampleset, 3)
            /\ reported' = [j \in 1 .. Len(sampleset') |->
                              ReportLine(cqm, num_switches, j - 1,
                                         sampleset'[j].sample)]
            /\ plots' = [j \in 1 .. Len(sampleset') |->
                            PlotName(filename, j - 1, mode)]
    /\ pc' = "done"
    /\ UNCHANGED <<genVars, sequence, mapping, mode, cqm, num_switches,
                   evalVars, filename, requested, time_limit, min_time_limit,
                   solver_calls, warnings, returned>>

NextMain == MainProblem \/ MainModel \/ MainSample \/ MainSolutions

SpecMain == InitMain /\ [][NextMain]_vars

----------------------------------------------------------------------------
(* Properties of main (SpecMain).                                          *)

\* Every category of the demand mapping has its demand of positions assigned 1.
SatisfiesDemand(seq, k, s) ==
    \A car \in DOMAIN k : BlackCount(seq, s, car) = k[car]

\* The positions of the solver's answer that hold a feasible candidate.
FeasibleReturned ==
    {j \in 1 .. Len(returned) :
        SatisfiesDemand(sequence, mapping, returned[j].sample)}

\* The distinct feasible assignments of the solver's answer.
DistinctFeasibleReturned == {returned[j].sample : j \in FeasibleReturned}

\* C6: whenever the requested time limit is below the solver's minimum, a
\* requested limit of 0 included, the solver is called with the minimum and a
\* warning is emitted.
C6_BelowMinimumIsClamped ==
    (pc \in {"sampled", "done"}
        /\ requested # None /\ Value(requested) < min_time_limit) =>
        /\ solver_calls = <<Some(min_time_limit)>>
        /\ Len(warnings) = 1

\* C7, as claimed: every reported candidate is feasible, at most 3 are
\* reported, and of k <= 3 feasible candidates returned by the solver k are
\* reported, however many infeasible candidates precede them.
C7_FeasibleReportedUpToThree ==
    pc = "done" =>
        /\ \A j \in DOMAIN reported :
              SatisfiesDemand(sequence, mapping, reported[j].sample)
        /\ Len(reported) <= 3
        /\ Len(reported) = Min(3, Cardinality(FeasibleReturned))

\* C7, amended: every reported candidate is feasible, at most 3 are reported,
\* and of k <= 3 distinct feasible candidates returned by the solver k are
\* reported, however many infeasible candidates precede them.
C7_DistinctFeasibleReportedUpToThree ==
    pc = "done" =>
        /\ \A j \in DOMAIN reported :
              SatisfiesDemand(sequence, mapping, reported[j].sample)
        /\ Len(reported) <= 3
        /\ Len(reported) = Min(3, Cardinality(DistinctFeasibleReturned))

C7_Witness ==
    /\ pc = "done"
    /\ Len(returned) = 4
    /\ ~SatisfiesDemand(sequence, mapping, returned[1].sample)
    /\ Cardinality(DistinctFeasibleReturned) = 3
    /\ Len(reported) = 3
    /\ Len(plots) = 3

\* C8: when the solver returns no candidate, or no feasible candidate, the run
\* reports 'No feasible solution found.', reports no candidate, plots nothing
\* and ends.
C8_NoFeasibleSolution ==
    /\ (pc = "sampled" /\ FeasibleReturned = {}) => ENABLED MainSolutions
    /\ (pc = "done" /\ FeasibleReturned = {}) =>
        /\ printed[Len(printed)] = "No feasible solution found."
        /\ reported = <<>>
        /\ plots = <<>>

C8_Witness ==
    /\ pc = "done"
    /\ Len(returned) >= 2
    /\ FeasibleReturned = {}
    /\ printed[Len(printed)] = "No feasible solution found."
    /\ reported = <<>>

----------------------------------------------------------------------------
(* get_paint_shop_bqm on any constrained model (SpecBqm): models over two  *)
(* variables whose constraints may be inequalities or have a quadratic     *)
(* left-hand side.  The library's product of two models raises when one of *)
(* them has interactions, so the square of a quadratic left-hand side      *)
(* raises when the loop reaches it.                                        *)

Senses == {"==", "<=", ">="}

AnyLhs ==
    {Binary(2, 0),
     Add(Binary(2, 0), Binary(2, 1)),
     Mul(Binary(2, 0), Binary(2, 1))}

AnyConstraints ==
    {[lhs |-> l, sense |-> s, rhs |-> r] : l \in AnyLhs, s \in Senses, r \in 0 .. 1}

AnyCqms ==
    {Cqm(Objective(2, md), cs) :
        md \in Modes, cs \in SequencesOver(AnyConstraints, 0, MaxConstraints)}

\* the first constraint whose (c.lhs - c.rhs) ** 2 raises, or 0
FirstNonLinear(model) ==
    LET bad == {j \in DOMAIN model.constraints :
                    ~IsLinear(model.constraints[j].lhs)}
    IN  IF bad = {} THEN 0 ELSE CHOOSE j \in bad : \A o \in bad : j <= o

InitBqm ==
    /\ pc = "cqm"
    /\ Unset
    /\ NoMain
    /\ sequence = <<>> /\ mapping = <<>> /\ mode = None
    /\ cqm \in AnyCqms
    /\ num_switches = None
    /\ penalty = None /\ bqm = None
    /\ sample = None /\ energies = None

\* get_paint_shop_bqm(cqm, penalty=p): the model returned, or the model as far
\* as it was updated when the square raised
ReduceAnyCqm(p) ==
    /\ pc = "cqm"
    /\ penalty' = p
    /\ LET j == FirstNonLinear(cqm)
       IN  IF j = 0
           THEN /\ bqm' = GetPaintShopBqm(cqm, p)
                /\ pc' = "reduced"
           ELSE /\ bqm' = BqmUpdateUpTo(cqm, p, j - 1)
                /\ pc' = "raised"
    /\ UNCHANGED <<genVars, sequence, mapping, mode, cqm, num_switches,
                   sample, energies, mainVars>>

NextBqm == \E p \in Penalties : ReduceAnyCqm(p)

SpecBqm == InitBqm /\ [][NextBqm]_vars

\* A constraint that is not a linear equality.
Unsupported(c) == c.sense # "==" \/ ~IsLinear(c.lhs)

\* C11: get_paint_shop_bqm rejects every model that holds a constraint which
\* is not a linear equality, with an error raised before any penalty term is
\* expanded; it never returns a penalized model for such a model.
C11_UnsupportedIsRejected ==
    (pc \in {"reduced", "raised"}
        /\ \E j \in DOMAIN cqm.constraints : Unsupported(cqm.constraints[j])) =>
        /\ pc = "raised"
        /\ bqm = BqmFromObjective(cqm)

====
